---- MODULE Spec2Model ----
(***************************************************************************)
(* A model of src/src/con.c (i3 container tree): con_new, con_attach,      *)
(* con_detach, con_focus, con_get_workspace, con_get_fullscreen_con,       *)
(* con_for_window, con_fix_percent and con_toggle_fullscreen.              *)
(*                                                                         *)
(* The three intrusive lists of a container (nodes_head, focus_head,       *)
(* floating_head) are kept at the level of the TAILQ macros of             *)
(* <sys/queue.h> that con.c expands: a head is (tqh_first, tqh_last), an   *)
(* entry is (tqe_next, tqe_prev), and tqh_last/tqe_prev hold the address   *)
(* of a tqh_first or tqe_next field.  An element that has been removed     *)
(* keeps its old tqe_next/tqe_prev, exactly as in C, so what a second      *)
(* removal or a con_focus of a detached container does is computed, not    *)
(* assumed.                                                                *)
(***************************************************************************)
EXTENDS Integers, Sequences, FiniteSets, TLC

\* ------------------------------------------------------------------ bounds
\* Containers the tree specification (Spec) may create, and how many of
\* them may be detached (removed and not attached again) at the same time.
MaxTreeCons == 3
MaxDetached == 1
\* Containers the focus specification (SpecFocus) may create.
MaxFocusCons == 6
\* Containers the fullscreen specification (SpecFullscreen) may create.
MaxFsCons == 3
\* Containers the search specification (SpecSearch) may create.
MaxSearchCons == 6
\* Containers the matcher specification (SpecMatch) may create, and the
\* match rules one container may hold.
MaxMatchCons == 3
MaxSwallow == 2
\* Containers the percent specification (SpecPercent) may create, and the
\* number of con_fix_percent calls it may make.
MaxPctCons == 3
MaxFixCalls == 2
\* Containers the ancestor specification (SpecAncestor) may create.
MaxAncestorCons == 4
\* Containers the window-state specification (SpecWindow) may create.
MaxWindowCons == 3
\* Containers the urgency specification (SpecUrgent) may create.
MaxUrgentCons == 4
\* Containers the move specification (SpecMove) may create.
MaxMoveCons == 3

\* The universe of container addresses (large enough for every specification).
MaxOf(S) == CHOOSE m \in S : \A x \in S : x <= m
ConLimit == MaxOf({MaxTreeCons, MaxFocusCons, MaxFsCons, MaxSearchCons,
                   MaxMatchCons, MaxPctCons,
                   MaxAncestorCons, MaxWindowCons, MaxUrgentCons,
                   MaxMoveCons})
Con == 1..ConLimit

\* ------------------------------------------------------------ C constants
NULL == 0
ColorCount == 10

CT_CON == "CT_CON"
CT_OUTPUT == "CT_OUTPUT"
CT_WORKSPACE == "CT_WORKSPACE"
CT_FLOATING_CON == "CT_FLOATING_CON"
ConType == {CT_CON, CT_OUTPUT, CT_WORKSPACE, CT_FLOATING_CON}

CF_NONE == "CF_NONE"
CF_OUTPUT == "CF_OUTPUT"

WINDOW_ADD == "WINDOW_ADD"
WINDOW_REMOVE == "WINDOW_REMOVE"

\* ------------------------------------------------- addresses of list fields
\* The value of a tqh_last / tqe_prev field: the address of the tqh_first of
\* container `of`'s head, of the tqe_next of container `of`'s entry, or NULL.
NullAddr == [at |-> "null", of |-> NULL]
AddrFirst(p) == [at |-> "tqh_first", of |-> p]
AddrNext(c) == [at |-> "tqe_next", of |-> c]

\* scalloc()'ed memory: every pointer of a fresh container is NULL.
ZeroHead == [tqh_first |-> NULL, tqh_last |-> NullAddr]
ZeroEntry == [tqe_next |-> NULL, tqe_prev |-> NullAddr]

VARIABLES
    all_cons,        \* the registry: containers in creation order
    cnt,             \* con_new's static colour counter
    name,            \* name[c]: index of the colour the container is named after
    type,            \* type[c]
    parent,          \* parent[c]: a container or NULL
    nodes_head,      \* nodes_head[c]: head of the list of children
    nodes_entry,     \* entry `nodes` of c (its links in the parent's nodes_head)
    focus_head,      \* focus_head[c]: head of the focus list
    focused_entry,   \* entry `focused` of c (its links in the parent's focus_head)
    floating_head,   \* floating_head[c]: head of the list of floating children
    floating_entry,  \* entry `floating_windows` of c
    swallow_head,    \* swallow_head[c]: the match rules of c, in list order
    percent,         \* percent[c]: a rational [n, d], d > 0
    window,          \* window[c]: a window id or NULL
    fullscreen_mode, \* fullscreen_mode[c]
    urgent,          \* urgent[c]
    focused,         \* the global focus pointer
    failure,         \* "none", or how the process died
    xcalls,          \* calls to collaborators made by the last operation
    ret,             \* what the last operation returned (NULL for void)
    last             \* the last operation and its arguments

vars == <<all_cons, cnt, name, type, parent, nodes_head, nodes_entry, focus_head,
          focused_entry, floating_head, floating_entry, swallow_head, percent,
          window, fullscreen_mode, urgent, focused, failure, xcalls, ret, last>>

treeVars == <<parent, nodes_head, nodes_entry, focus_head, focused_entry,
              floating_head, floating_entry>>

Created == {all_cons[i] : i \in 1..Len(all_cons)}

\* ------------------------------------------------------- <sys/queue.h>
\* Each macro takes the heads h and the entries e of one linkage, the
\* container p whose head is operated on and the element elm; it returns the
\* new heads and entries, and fault = TRUE when it dereferences NULL.
TqResult(h, e, f) == [head |-> h, entry |-> e, fault |-> f]

\* *addr = val
StoreAt(h, e, addr, val) ==
    IF addr.at = "tqh_first"
    THEN TqResult([h EXCEPT ![addr.of].tqh_first = val], e, FALSE)
    ELSE IF addr.at = "tqe_next"
    THEN TqResult(h, [e EXCEPT ![addr.of].tqe_next = val], FALSE)
    ELSE TqResult(h, e, TRUE)

TAILQ_INIT(h, p) ==
    [h EXCEPT ![p] = [tqh_first |-> NULL, tqh_last |-> AddrFirst(p)]]

TAILQ_INSERT_TAIL(h, e, p, elm) ==
    IF p = NULL THEN TqResult(h, e, TRUE)
    ELSE LET e1 == [e EXCEPT ![elm] = [tqe_next |-> NULL,
                                       tqe_prev |-> h[p].tqh_last]]
             s  == StoreAt(h, e1, h[p].tqh_last, elm)
         IN  TqResult([s.head EXCEPT ![p].tqh_last = AddrNext(elm)],
                      s.entry, s.fault)

TAILQ_INSERT_HEAD(h, e, p, elm) ==
    IF p = NULL THEN TqResult(h, e, TRUE)
    ELSE LET first == h[p].tqh_first
             e1 == [e EXCEPT ![elm].tqe_next = first]
             e2 == IF first # NULL
                   THEN [e1 EXCEPT ![first].tqe_prev = AddrNext(elm)]
                   ELSE e1
             h1 == IF first # NULL THEN h
                   ELSE [h EXCEPT ![p].tqh_last = AddrNext(elm)]
         IN  TqResult([h1 EXCEPT ![p].tqh_first = elm],
                      [e2 EXCEPT ![elm].tqe_prev = AddrFirst(p)], FALSE)

TAILQ_REMOVE(h, e, p, elm) ==
    LET next == e[elm].tqe_next
    IN  IF next = NULL /\ p = NULL THEN TqResult(h, e, TRUE)
        ELSE LET e1 == IF next # NULL
                       THEN [e EXCEPT ![next].tqe_prev = e[elm].tqe_prev]
                       ELSE e
                 h1 == IF next # NULL THEN h
                       ELSE [h EXCEPT ![p].tqh_last = e[elm].tqe_prev]
             IN  StoreAt(h1, e1, e1[elm].tqe_prev, e1[elm].tqe_next)

\* TAILQ_FOREACH: the elements met from tqh_first along tqe_next.  `fuel`
\* bounds the walk; a walk that does not end within ConLimit + 1 steps is a
\* cycle, on which the C loop never ends.
RECURSIVE TqWalk(_, _, _)
TqWalk(e, c, fuel) ==
    IF c = NULL \/ fuel = 0 THEN <<>>
    ELSE <<c>> \o TqWalk(e, e[c].tqe_next, fuel - 1)

TAILQ_FOREACH(h, e, p) == TqWalk(e, h[p].tqh_first, ConLimit + 1)
TAILQ_EMPTY(h, p) == h[p].tqh_first = NULL

\* ------------------------------------------------------------ list views
children(p) == TAILQ_FOREACH(nodes_head, nodes_entry, p)
focus_order(p) == TAILQ_FOREACH(focus_head, focused_entry, p)
floating_children(p) == TAILQ_FOREACH(floating_head, floating_entry, p)

Range(s) == {s[i] : i \in 1..Len(s)}
NoDup(s) == \A i, j \in 1..Len(s) : s[i] = s[j] => i = j

\* The parent chain of c, c included (parent links never form a cycle: see
\* AttachAllowed).
RECURSIVE Chain(_)
Chain(c) == IF c = NULL THEN {} ELSE {c} \cup Chain(parent[c])

\* ------------------------------------------------------------- percent
\* A percent is a rational n/d in lowest terms with d > 0 (the double of the
\* C code, without its rounding).
RECURSIVE Gcd(_, _)
Gcd(a, b) == IF b = 0 THEN a ELSE Gcd(b, a % b)
Abs(a) == IF a < 0 THEN -a ELSE a
Rat(n, d) ==
    LET g == Gcd(Abs(n), d)
    IN  [n |-> n \div g, d |-> d \div g]
RatMul(a, b) == Rat(a.n * b.n, a.d * b.d)
RatAdd(a, b) == Rat(a.n * b.d + b.n * a.d, a.d * b.d)
RatSub(a, b) == Rat(a.n * b.d - b.n * a.d, a.d * b.d)
RatInv(a) == Rat(a.d, a.n)
RatLeqZero(a) == a.n <= 0
RatZero == [n |-> 0, d |-> 1]
RatOne == [n |-> 1, d |-> 1]

\* The sum of the positive percents of the children of p.
RECURSIVE SumPositive(_)
SumPositive(s) ==
    IF s = <<>> THEN RatZero
    ELSE IF RatLeqZero(percent[Head(s)]) THEN SumPositive(Tail(s))
    ELSE RatAdd(percent[Head(s)], SumPositive(Tail(s)))
PositiveSum(p) == SumPositive(children(p))
AllPositive(p) == \A c \in Range(children(p)) : ~RatLeqZero(percent[c])

\* ------------------------------------------------------------ history
\* How far the calls made so far are into an add/remove cycle on a parent.
\* CycleAfter: con_attach(child, parent) of a child without percent,
\* con_fix_percent(parent, WINDOW_ADD), con_detach(child),
\* con_fix_percent(parent, WINDOW_REMOVE).  `sum` is PositiveSum(parent)
\* and `n` the number of children of parent when the cycle began.
IdleCycle ==
    [stage |-> "idle", parent |-> NULL, child |-> NULL, sum |-> RatZero,
     n |-> 0]
IsAttach(op, c, a) == op \in {"con_new", "con_attach"} /\ a # NULL
IsFix(op, c, a, p, action) == op = "con_fix_percent" /\ c = p /\ a = action

CycleAfter(cy, op, c, a) ==
    IF IsAttach(op, c, a) /\ RatLeqZero(percent[c]) /\ AllPositive(a)
    THEN [stage |-> "attached", parent |-> a, child |-> c,
          sum |-> PositiveSum(a), n |-> Len(children(a))]
    ELSE IF cy.stage = "attached" /\ IsFix(op, c, a, cy.parent, WINDOW_ADD)
    THEN [cy EXCEPT !.stage = "added"]
    ELSE IF cy.stage = "added" /\ op = "con_detach" /\ c = cy.child
    THEN [cy EXCEPT !.stage = "detached"]
    ELSE IF cy.stage = "detached" /\ IsFix(op, c, a, cy.parent, WINDOW_REMOVE)
    THEN [cy EXCEPT !.stage = "done"]
    ELSE IdleCycle

\* con_fix_percent(parent, WINDOW_ADD) directly followed by
\* con_fix_percent(parent, WINDOW_REMOVE); `before` is percent as it was
\* when the first of the two calls was made.
IdlePair == [stage |-> "idle", parent |-> NULL, before |-> <<>>]
AddRemove(ar, op, c, a) ==
    IF op = "con_fix_percent" /\ a = WINDOW_ADD
    THEN [stage |-> "added", parent |-> c, before |-> percent]
    ELSE IF ar.stage = "added" /\ IsFix(op, c, a, ar.parent, WINDOW_REMOVE)
    THEN [ar EXCEPT !.stage = "done"]
    ELSE IdlePair
\* `last` names the last call; for con_attach(con, p) it also keeps what p's
\* child list and focus list were when the call was made.
\* ------------------------------------------------------------------- Init
Init ==
    /\ all_cons = <<>>
    /\ cnt = 0
    /\ name = [c \in Con |-> 0]
    /\ type = [c \in Con |-> CT_CON]
    /\ parent = [c \in Con |-> NULL]
    /\ nodes_head = [c \in Con |-> ZeroHead]
    /\ nodes_entry = [c \in Con |-> ZeroEntry]
    /\ focus_head = [c \in Con |-> ZeroHead]
    /\ focused_entry = [c \in Con |-> ZeroEntry]
    /\ floating_head = [c \in Con |-> ZeroHead]
    /\ floating_entry = [c \in Con |-> ZeroEntry]
    /\ swallow_head = [c \in Con |-> <<>>]
    /\ percent = [c \in Con |-> RatZero]
    /\ window = [c \in Con |-> NULL]
    /\ fullscreen_mode = [c \in Con |-> CF_NONE]
    /\ urgent = [c \in Con |-> FALSE]
    /\ focused = NULL
    /\ failure = "none"
    /\ xcalls = <<>>
    /\ ret = NULL
    /\ last = [op |-> "init", con |-> NULL, arg |-> NULL,
               pre_nodes |-> <<>>, pre_focus |-> <<>>,
               cycle_after |-> IdleCycle, fix_calls |-> 0,
               add_remove |-> IdlePair]

Call(fn, c, v) == [fn |-> fn, con |-> c, val |-> v]

Op(op, c, a) ==
    [op |-> op, con |-> c, arg |-> a, pre_nodes |-> <<>>, pre_focus |-> <<>>,
     cycle_after |-> CycleAfter(last.cycle_after, op, c, a),
     add_remove |-> AddRemove(last.add_remove, op, c, a),
     fix_calls |-> last.fix_calls + (IF op = "con_fix_percent" THEN 1 ELSE 0)]


\* ------------------------------------------------------- program memory
\* The fields the functions of con.c write, as one value: every function
\* below maps such a value to the one it leaves behind.
Mem ==
    [parent |-> parent,
     nodes_head |-> nodes_head, nodes_entry |-> nodes_entry,
     focus_head |-> focus_head, focused_entry |-> focused_entry,
     floating_head |-> floating_head, floating_entry |-> floating_entry,
     percent |-> percent, fullscreen_mode |-> fullscreen_mode,
     urgent |-> urgent, focused |-> focused,
     failure |-> failure, xcalls |-> <<>>]

Store(m) ==
    /\ parent' = m.parent
    /\ nodes_head' = m.nodes_head
    /\ nodes_entry' = m.nodes_entry
    /\ focus_head' = m.focus_head
    /\ focused_entry' = m.focused_entry
    /\ floating_head' = m.floating_head
    /\ floating_entry' = m.floating_entry
    /\ percent' = m.percent
    /\ fullscreen_mode' = m.fullscreen_mode
    /\ urgent' = m.urgent
    /\ focused' = m.focused
    /\ failure' = m.failure
    /\ xcalls' = m.xcalls

\* A NULL dereference ends the process with SIGSEGV, a failed assert() with
\* SIGABRT; nothing runs afterwards.
Segv(m) == [m EXCEPT !.failure = "SIGSEGV"]
Abort(m) == [m EXCEPT !.failure = "SIGABRT"]

\* --------------------------------------------------------- con_attach
\* (mutant) con_attach that puts the container at the head of the focus list.
con_attach_focus_head(m, con, p) ==
    LET r1 == TAILQ_INSERT_TAIL(m.nodes_head, m.nodes_entry, p, con)
        r2 == TAILQ_INSERT_HEAD(m.focus_head, m.focused_entry, p, con)
    IN  IF r1.fault \/ r2.fault THEN Segv(m)
        ELSE [m EXCEPT !.parent[con] = p,
                       !.nodes_head = r1.head, !.nodes_entry = r1.entry,
                       !.focus_head = r2.head, !.focused_entry = r2.entry]

con_attach(m, con, p) ==
    LET r1 == TAILQ_INSERT_TAIL(m.nodes_head, m.nodes_entry, p, con)
        r2 == TAILQ_INSERT_TAIL(m.focus_head, m.focused_entry, p, con)
    IN  IF r1.fault \/ r2.fault THEN Segv(m)
        ELSE [m EXCEPT !.parent[con] = p,
                       !.nodes_head = r1.head, !.nodes_entry = r1.entry,
                       !.focus_head = r2.head, !.focused_entry = r2.entry]

\* --------------------------------------------------------- con_detach
\* (mutant) con_detach that leaves the container in the focus list.
con_detach_keeps_focus(m, con) ==
    LET p  == m.parent[con]
        r1 == TAILQ_REMOVE(m.nodes_head, m.nodes_entry, p, con)
    IN  IF r1.fault THEN Segv(m)
        ELSE [m EXCEPT !.nodes_head = r1.head, !.nodes_entry = r1.entry]

\* (mutant) con_detach that also resets con->parent.
con_detach_clears_parent(m, con) ==
    LET p  == m.parent[con]
        r1 == TAILQ_REMOVE(m.nodes_head, m.nodes_entry, p, con)
        r2 == TAILQ_REMOVE(m.focus_head, m.focused_entry, p, con)
    IN  IF r1.fault \/ r2.fault THEN Segv(m)
        ELSE [m EXCEPT !.parent[con] = NULL,
                       !.nodes_head = r1.head, !.nodes_entry = r1.entry,
                       !.focus_head = r2.head, !.focused_entry = r2.entry]

con_detach(m, con) ==
    LET p == m.parent[con]
    IN  IF type[con] = CT_FLOATING_CON
        THEN LET r1 == TAILQ_REMOVE(m.floating_head, m.floating_entry, p, con)
                 r2 == TAILQ_REMOVE(m.focus_head, m.focused_entry, p, con)
             IN  IF r1.fault \/ r2.fault THEN Segv(m)
                 ELSE [m EXCEPT !.floating_head = r1.head,
                                !.floating_entry = r1.entry,
                                !.focus_head = r2.head,
                                !.focused_entry = r2.entry]
        ELSE LET r1 == TAILQ_REMOVE(m.nodes_head, m.nodes_entry, p, con)
                 r2 == TAILQ_REMOVE(m.focus_head, m.focused_entry, p, con)
             IN  IF r1.fault \/ r2.fault THEN Segv(m)
                 ELSE [m EXCEPT !.nodes_head = r1.head,
                                !.nodes_entry = r1.entry,
                                !.focus_head = r2.head,
                                !.focused_entry = r2.entry]

\* ---------------------------------------------------- con_get_workspace
\* The nearest container of type t on the parent chain from con (inclusive),
\* NULL when the chain ends without one (where the C code's assert fails).
\* (mutant) the walk started at the parent of con.
RECURSIVE OfTypeAbove(_, _, _)
OfTypeAbove(par, con, t) ==
    IF con = NULL THEN NULL
    ELSE IF par[con] # NULL /\ type[par[con]] = t THEN par[con]
    ELSE OfTypeAbove(par, par[con], t)

RECURSIVE NearestOfType(_, _, _)
NearestOfType(par, con, t) ==
    IF con = NULL THEN NULL
    ELSE IF type[con] = t THEN con
    ELSE NearestOfType(par, par[con], t)

con_get_output(m, con) == NearestOfType(m.parent, con, CT_OUTPUT)
con_get_workspace(m, con) == NearestOfType(m.parent, con, CT_WORKSPACE)

\* ----------------------------------------------------------- con_focus
\* (mutant) con_focus without the call for the parent: only the container
\* itself is moved to the head of its parent's focus list.
con_focus_no_ascent(m, con) ==
    LET p  == m.parent[con]
        r1 == TAILQ_REMOVE(m.focus_head, m.focused_entry, p, con)
        r2 == TAILQ_INSERT_HEAD(r1.head, r1.entry, p, con)
    IN  IF r1.fault \/ r2.fault THEN Segv(m)
        ELSE [m EXCEPT !.focus_head = r2.head, !.focused_entry = r2.entry,
                       !.focused = con]

\* (mutant) con_focus that sets the focus pointer before it ascends, so
\* that the pointer is left on the topmost container it promoted.
RECURSIVE con_focus_pointer_first(_, _)
con_focus_pointer_first(m, con) ==
    LET p  == m.parent[con]
        r1 == TAILQ_REMOVE(m.focus_head, m.focused_entry, p, con)
        r2 == TAILQ_INSERT_HEAD(r1.head, r1.entry, p, con)
    IN  IF r1.fault \/ r2.fault THEN Segv(m)
        ELSE LET m1 == [m EXCEPT !.focus_head = r2.head,
                                 !.focused_entry = r2.entry,
                                 !.focused = con]
             IN  IF m1.parent[p] # NULL
                 THEN con_focus_pointer_first(m1, p) ELSE m1

\* (mutant) con_focus that moves the container to the head of the list of
\* children as well.
RECURSIVE con_focus_reorders_children(_, _)
con_focus_reorders_children(m, con) ==
    LET p  == m.parent[con]
        r1 == TAILQ_REMOVE(m.focus_head, m.focused_entry, p, con)
        r2 == TAILQ_INSERT_HEAD(r1.head, r1.entry, p, con)
        n1 == TAILQ_REMOVE(m.nodes_head, m.nodes_entry, p, con)
        n2 == TAILQ_INSERT_HEAD(n1.head, n1.entry, p, con)
    IN  IF r1.fault \/ r2.fault \/ n1.fault \/ n2.fault THEN Segv(m)
        ELSE LET m1 == [m EXCEPT !.focus_head = r2.head,
                                 !.focused_entry = r2.entry,
                                 !.nodes_head = n2.head,
                                 !.nodes_entry = n2.entry]
                 m2 == IF m1.parent[p] # NULL
                       THEN con_focus_reorders_children(m1, p) ELSE m1
             IN  [m2 EXCEPT !.focused = con]

RECURSIVE con_focus(_, _)
con_focus(m, con) ==
    LET p  == m.parent[con]
        r1 == TAILQ_REMOVE(m.focus_head, m.focused_entry, p, con)
        r2 == TAILQ_INSERT_HEAD(r1.head, r1.entry, p, con)
    IN  IF r1.fault \/ r2.fault THEN Segv(m)
        ELSE LET m1 == [m EXCEPT !.focus_head = r2.head,
                                 !.focused_entry = r2.entry]
                 m2 == IF m1.parent[p] # NULL THEN con_focus(m1, p) ELSE m1
                 m3 == [m2 EXCEPT !.focused = con]
                 ws == con_get_workspace(m3, con)
             IN  IF m2.failure # "none" THEN m2
                 ELSE IF ~m3.urgent[con] THEN m3
                 ELSE IF ws = NULL
                 THEN Abort([m3 EXCEPT !.urgent[con] = FALSE])
                 ELSE [m3 EXCEPT !.urgent[con] = FALSE,
                                 !.xcalls = Append(@,
                                     Call("workspace_update_urgent_flag", ws, ""))]

\* ------------------------------------------------------ con_for_window
\* A match rule names a window class; a window is given by its class.
MatchClass == {"urxvt", "firefox"}
WindowClass == {"urxvt", "firefox", "gimp"}
match_matches_window(match, win) == match = win

\* The inner TAILQ_FOREACH: the position of the first rule of con, from
\* position i on, that matches; 0 when there is none.
RECURSIVE first_match(_, _, _)
first_match(con, i, win) ==
    IF i > Len(swallow_head[con]) THEN 0
    ELSE IF ~match_matches_window(swallow_head[con][i], win)
    THEN first_match(con, i + 1, win)
    ELSE i

\* The outer TAILQ_FOREACH over all_cons, from position k on; the result is
\* the container returned and the rule stored in *store_match.
RECURSIVE for_window_from(_, _)
for_window_from(k, win) ==
    IF k > Len(all_cons) THEN [con |-> NULL, match |-> 0]
    ELSE IF first_match(all_cons[k], 1, win) # 0
    THEN [con |-> all_cons[k], match |-> first_match(all_cons[k], 1, win)]
    ELSE for_window_from(k + 1, win)

\* (mutant) the scan that does not stop at the first container with a
\* matching rule: the last one wins.
RECURSIVE for_window_last(_, _, _)
for_window_last(k, win, found) ==
    IF k > Len(all_cons) THEN found
    ELSE IF first_match(all_cons[k], 1, win) # 0
    THEN for_window_last(k + 1, win,
             [con |-> all_cons[k], match |-> first_match(all_cons[k], 1, win)])
    ELSE for_window_last(k + 1, win, found)
con_for_window_no_return(win) ==
    for_window_last(1, win, [con |-> NULL, match |-> 0])

con_for_window(win) == for_window_from(1, win)

\* ----------------------------------------------- con_get_fullscreen_con
\* (mutant) the search with the children put in front of the queue: depth
\* first.
RECURSIVE dfs_head(_, _, _)
dfs_head(m, con, queue) ==
    IF queue = <<>> THEN NULL
    ELSE LET current == Head(queue)
         IN  IF current # con /\ m.fullscreen_mode[current] # CF_NONE
             THEN current
             ELSE dfs_head(m, con,
                      TAILQ_FOREACH(m.nodes_head, m.nodes_entry, current)
                          \o Tail(queue))
con_get_fullscreen_con_depth_first(m, con) == dfs_head(m, con, <<con>>)

\* The while loop over bfs_head: the queue holds the containers still to be
\* checked, the children of the one checked are appended to it.
RECURSIVE bfs_head(_, _, _)
bfs_head(m, con, queue) ==
    IF queue = <<>> THEN NULL
    ELSE LET current == Head(queue)
         IN  IF current # con /\ m.fullscreen_mode[current] # CF_NONE
             THEN current
             ELSE bfs_head(m, con,
                      Tail(queue) \o TAILQ_FOREACH(m.nodes_head, m.nodes_entry,
                                                   current))

con_get_fullscreen_con(m, con) == bfs_head(m, con, <<con>>)

\* ------------------------------------------------------ con_fix_percent
\* The second loop: percent of every child of the list with percent > 0 is
\* multiplied by fix.
RECURSIVE scale_children(_, _, _)
scale_children(pct, s, fix) ==
    IF s = <<>> THEN pct
    ELSE IF RatLeqZero(pct[Head(s)]) THEN scale_children(pct, Tail(s), fix)
    ELSE scale_children([pct EXCEPT ![Head(s)] = RatMul(@, fix)], Tail(s), fix)

\* (mutant) WINDOW_REMOVE undone with 1 + 1/(children+1).
con_fix_percent_wrong_remove(m, con, action) ==
    LET nodes == TAILQ_FOREACH(m.nodes_head, m.nodes_entry, con)
        children_ == Len(nodes)
        fix == IF action = WINDOW_ADD
               THEN RatSub(RatOne, Rat(1, children_ + 1))
               ELSE RatAdd(RatOne, Rat(1, children_ + 1))
    IN  [m EXCEPT !.percent = scale_children(@, nodes, fix)]

\* (mutant) WINDOW_ADD computed as 1 - 1/(children+2).
con_fix_percent_wrong_add(m, con, action) ==
    LET nodes == TAILQ_FOREACH(m.nodes_head, m.nodes_entry, con)
        children_ == Len(nodes)
        fix == IF action = WINDOW_ADD
               THEN RatSub(RatOne, Rat(1, children_ + 2))
               ELSE RatInv(RatSub(RatOne, Rat(1, children_ + 1)))
    IN  [m EXCEPT !.percent = scale_children(@, nodes, fix)]

\* (mutant) only the first child is scaled.
con_fix_percent_first_only(m, con, action) ==
    LET nodes == TAILQ_FOREACH(m.nodes_head, m.nodes_entry, con)
        children_ == Len(nodes)
        fix == IF action = WINDOW_ADD
               THEN RatSub(RatOne, Rat(1, children_ + 1))
               ELSE RatInv(RatSub(RatOne, Rat(1, children_ + 1)))
    IN  [m EXCEPT !.percent = scale_children(@,
                          IF nodes = <<>> THEN <<>> ELSE <<Head(nodes)>>, fix)]

\* Without children the loop body never runs and fix (1.0 / 0.0 for
\* WINDOW_REMOVE) is not used.
con_fix_percent(m, con, action) ==
    LET nodes == TAILQ_FOREACH(m.nodes_head, m.nodes_entry, con)
        children_ == Len(nodes)
        fix == IF action = WINDOW_ADD
               THEN RatSub(RatOne, Rat(1, children_ + 1))
               ELSE RatInv(RatSub(RatOne, Rat(1, children_ + 1)))
    IN  [m EXCEPT !.percent = scale_children(@, nodes, fix)]

\* ------------------------------------------------ con_toggle_fullscreen
\* (mutant) the toggle without the check for a fullscreen container.
con_toggle_fullscreen_unchecked(m, con) ==
    [m EXCEPT !.fullscreen_mode[con] =
                  IF @ = CF_NONE THEN CF_OUTPUT ELSE CF_NONE]

\* The tail of con_toggle_fullscreen: _NET_WM_STATE is pushed to the window
\* of the container, if it has one.
update_net_wm_state(m, con) ==
    IF window[con] = NULL THEN m
    ELSE [m EXCEPT !.xcalls = Append(@,
             Call("xcb_change_property", con,
                  IF m.fullscreen_mode[con] # CF_NONE
                  THEN "_NET_WM_STATE_FULLSCREEN" ELSE ""))]

con_toggle_fullscreen(m, con) ==
    IF m.fullscreen_mode[con] = CF_NONE
    THEN LET workspace == con_get_workspace(m, con)
         IN  IF workspace = NULL THEN Abort(m)
             ELSE IF con_get_fullscreen_con(m, workspace) # NULL THEN m
             ELSE update_net_wm_state(
                      [m EXCEPT !.fullscreen_mode[con] = CF_OUTPUT], con)
    ELSE update_net_wm_state([m EXCEPT !.fullscreen_mode[con] = CF_NONE], con)

\* -------------------------------------------------------------- con_new
\* scalloc() hands out the next unused container; its fields are zero.
con_new(p) ==
    LET new == Len(all_cons) + 1
        m0  == [Mem EXCEPT
                   !.floating_head = TAILQ_INIT(@, new),
                   !.nodes_head = TAILQ_INIT(@, new),
                   !.focus_head = TAILQ_INIT(@, new),
                   !.xcalls = <<Call("x_con_init", new, ""),
                                Call("xcb_change_window_attributes", new, "")>>]
    IN  /\ failure = "none"
        /\ new \in Con
        /\ all_cons' = Append(all_cons, new)
        /\ type' = [type EXCEPT ![new] = CT_CON]
        /\ name' = [name EXCEPT ![new] = cnt]
        /\ cnt' = IF (cnt + 1) % ColorCount = 0 THEN 0 ELSE cnt + 1
        /\ swallow_head' = [swallow_head EXCEPT ![new] = <<>>]
        /\ Store(IF p # NULL THEN con_attach(m0, new, p) ELSE m0)
        /\ ret' = [con |-> new, match |-> 0]
        /\ last' = Op("con_new", new, p)
        /\ UNCHANGED window

\* ------------------------------------------------------------- actions
NoRet == [con |-> NULL, match |-> 0]

\* The caller of con_new(NULL) gives the new container its kind before it
\* does anything else with it.
AssignType(con, t) ==
    /\ failure = "none"
    /\ con = all_cons[Len(all_cons)]
    /\ type[con] = CT_CON
    /\ parent[con] = NULL
    /\ TAILQ_EMPTY(nodes_head, con)
    /\ type' = [type EXCEPT ![con] = t]
    /\ xcalls' = <<>>
    /\ ret' = NoRet
    /\ last' = Op("AssignType", con, NULL)
    /\ UNCHANGED <<all_cons, cnt, name, treeVars, swallow_head, percent, window,
                   fullscreen_mode, urgent, focused, failure>>

\* con is in no child list, and attaching it under p closes no cycle of
\* parent links.
Attached(con) == parent[con] # NULL /\ con \in Range(children(parent[con]))
AttachAllowed(con, p) ==
    /\ ~Attached(con)
    /\ con \notin Chain(p)

CallAttach(con, p) ==
    /\ failure = "none"
    /\ AttachAllowed(con, p)
    /\ Store(con_attach(Mem, con, p))
    /\ ret' = NoRet
    /\ last' = [Op("con_attach", con, p) EXCEPT
                    !.pre_nodes = children(p), !.pre_focus = focus_order(p)]
    /\ UNCHANGED <<all_cons, cnt, name, type, swallow_head, window>>

CallDetach(con) ==
    /\ failure = "none"
    /\ Store(con_detach(Mem, con))
    /\ ret' = NoRet
    /\ last' = [Op("con_detach", con, NULL) EXCEPT
                    !.pre_nodes = IF parent[con] = NULL THEN <<>>
                                  ELSE children(parent[con]),
                    !.pre_focus = IF parent[con] = NULL THEN <<>>
                                  ELSE focus_order(parent[con])]
    /\ UNCHANGED <<all_cons, cnt, name, type, swallow_head, window>>

CallFocus(con) ==
    /\ failure = "none"
    /\ Store(con_focus(Mem, con))
    /\ ret' = NoRet
    /\ last' = Op("con_focus", con, NULL)
    /\ UNCHANGED <<all_cons, cnt, name, type, swallow_head, window>>

CallToggleFullscreen(con) ==
    /\ failure = "none"
    /\ Store(con_toggle_fullscreen(Mem, con))
    /\ ret' = NoRet
    /\ last' = Op("con_toggle_fullscreen", con, NULL)
    /\ UNCHANGED <<all_cons, cnt, name, type, swallow_head, window>>

\* The search applied to the tree as it is; nothing is written.
CallGetFullscreenCon(con) ==
    /\ failure = "none"
    /\ ret' = [con |-> con_get_fullscreen_con(Mem, con), match |-> 0]
    /\ xcalls' = <<>>
    /\ last' = Op("con_get_fullscreen_con", con, NULL)
    /\ UNCHANGED <<all_cons, cnt, name, type, treeVars, swallow_head, percent,
                   window, fullscreen_mode, urgent, focused, failure>>

\* con_get_output and con_get_workspace called on their own: the container
\* found is returned, and the assert ends the process when there is none.
CallGetOutput(con) ==
    /\ failure = "none"
    /\ failure' = IF con_get_output(Mem, con) = NULL THEN "SIGABRT" ELSE "none"
    /\ ret' = [con |-> con_get_output(Mem, con), match |-> 0]
    /\ xcalls' = <<>>
    /\ last' = Op("con_get_output", con, NULL)
    /\ UNCHANGED <<all_cons, cnt, name, type, treeVars, swallow_head, percent,
                   window, fullscreen_mode, urgent, focused>>

CallGetWorkspace(con) ==
    /\ failure = "none"
    /\ failure' = IF con_get_workspace(Mem, con) = NULL THEN "SIGABRT" ELSE "none"
    /\ ret' = [con |-> con_get_workspace(Mem, con), match |-> 0]
    /\ xcalls' = <<>>
    /\ last' = Op("con_get_workspace", con, NULL)
    /\ UNCHANGED <<all_cons, cnt, name, type, treeVars, swallow_head, percent,
                   window, fullscreen_mode, urgent, focused>>

\* The assignment of line 296 on its own: the search is given trees with
\* any set of fullscreen containers (several in one subtree are reachable,
\* see C3).
EnterFullscreen(con) ==
    /\ failure = "none"
    /\ fullscreen_mode[con] = CF_NONE
    /\ fullscreen_mode' = [fullscreen_mode EXCEPT ![con] = CF_OUTPUT]
    /\ xcalls' = <<>>
    /\ ret' = NoRet
    /\ last' = Op("EnterFullscreen", con, NULL)
    /\ UNCHANGED <<all_cons, cnt, name, type, treeVars, swallow_head, percent,
                   window, urgent, focused, failure>>

\* The caller gives a container a further match rule (at the tail of its
\* swallow_head).
AddSwallow(con, match) ==
    /\ failure = "none"
    /\ swallow_head' = [swallow_head EXCEPT ![con] = Append(@, match)]
    /\ xcalls' = <<>>
    /\ ret' = NoRet
    /\ last' = Op("AddSwallow", con, NULL)
    /\ UNCHANGED <<all_cons, cnt, name, type, treeVars, percent, window,
                   fullscreen_mode, urgent, focused, failure>>

CallForWindow(win) ==
    /\ failure = "none"
    /\ ret' = con_for_window(win)
    /\ xcalls' = <<>>
    /\ last' = Op("con_for_window", NULL, win)
    /\ UNCHANGED <<all_cons, cnt, name, type, treeVars, swallow_head, percent,
                   window, fullscreen_mode, urgent, focused, failure>>

\* The window manager puts a window into a container that has none; the
\* window of container con is named con.
AssignWindow(con) ==
    /\ failure = "none"
    /\ window[con] = NULL
    /\ window' = [window EXCEPT ![con] = con]
    /\ xcalls' = <<>>
    /\ ret' = NoRet
    /\ last' = Op("AssignWindow", con, NULL)
    /\ UNCHANGED <<all_cons, cnt, name, type, treeVars, swallow_head, percent,
                   fullscreen_mode, urgent, focused, failure>>

\* A client asks for attention: the window manager marks its container.
SetUrgent(con) ==
    /\ failure = "none"
    /\ ~urgent[con]
    /\ urgent' = [urgent EXCEPT ![con] = TRUE]
    /\ xcalls' = <<>>
    /\ ret' = NoRet
    /\ last' = Op("SetUrgent", con, NULL)
    /\ UNCHANGED <<all_cons, cnt, name, type, treeVars, swallow_head, percent,
                   window, fullscreen_mode, focused, failure>>

\* The layout code gives a container without percent its share.
AssignPercent(con, q) ==
    /\ failure = "none"
    /\ percent[con] = RatZero
    /\ percent' = [percent EXCEPT ![con] = q]
    /\ xcalls' = <<>>
    /\ ret' = NoRet
    /\ last' = Op("AssignPercent", con, NULL)
    /\ UNCHANGED <<all_cons, cnt, name, type, treeVars, swallow_head, window,
                   fullscreen_mode, urgent, focused, failure>>

CallFixPercent(con, action) ==
    /\ failure = "none"
    /\ Store(con_fix_percent(Mem, con, action))
    /\ ret' = NoRet
    /\ last' = Op("con_fix_percent", con, action)
    /\ UNCHANGED <<all_cons, cnt, name, type, swallow_head, window>>

\* ------------------------------------------------------ well-formed trees
\* The list of p in one linkage is a proper tail queue: the walk from
\* tqh_first ends, meets no element twice, and every tqe_prev and tqh_last
\* holds the address the macros would have left there.
ListOK(h, e, p) ==
    LET s == TAILQ_FOREACH(h, e, p)
    IN  /\ Len(s) <= ConLimit
        /\ NoDup(s)
        /\ \A i \in 1..Len(s) :
               e[s[i]].tqe_prev = IF i = 1 THEN AddrFirst(p) ELSE AddrNext(s[i - 1])
        /\ h[p].tqh_last = IF s = <<>> THEN AddrFirst(p) ELSE AddrNext(s[Len(s)])

Members(p) == Range(children(p)) \cup Range(floating_children(p))

\* The structure is a tree (spec section 3): every list is a proper list,
\* every member of a child list has the list's owner as parent, and each
\* focus list orders exactly the members of its owner.  A detached container
\* is in no list; its stale parent and links are not constrained.
WellFormed ==
    \A p \in Created :
        /\ ListOK(nodes_head, nodes_entry, p)
        /\ ListOK(focus_head, focused_entry, p)
        /\ ListOK(floating_head, floating_entry, p)
        /\ Range(focus_order(p)) = Members(p)
        /\ \A c \in Members(p) : parent[c] = p

\* ------------------------------------------------- the tree specification
\* The operations are applied to trees: once a call has left the lists
\* ill-formed the run is not continued.
Detached == {c \in Created : parent[c] # NULL /\ ~Attached(c)}
HasParent == {c \in Created : parent[c] # NULL}

TreeNew ==
    /\ WellFormed
    /\ \E p \in Created \cup {NULL} : Len(all_cons) < MaxTreeCons /\ con_new(p)
TreeType ==
    /\ WellFormed
    /\ \E c \in Created : AssignType(c, CT_FLOATING_CON)
TreeAttach ==
    /\ WellFormed
    /\ \E c, p \in Created : CallAttach(c, p)
TreeDetach ==
    /\ WellFormed
    /\ \E c \in HasParent :
           /\ Attached(c) => Cardinality(Detached) < MaxDetached
           /\ CallDetach(c)
TreeFocus ==
    /\ WellFormed
    /\ \E c \in HasParent : CallFocus(c)

Next == TreeNew \/ TreeType \/ TreeAttach \/ TreeDetach \/ TreeFocus

Spec == Init /\ [][Next]_vars

\* ------------------------------------------------ the focus specification
\* Trees built by con_new alone (which attaches the new container to the
\* parent it is given), and con_focus on them.
FocusNew == \E p \in Created \cup {NULL} :
                Len(all_cons) < MaxFocusCons /\ con_new(p)
FocusFocus == \E c \in HasParent : CallFocus(c)

NextFocus == FocusNew \/ FocusFocus

SpecFocus == Init /\ [][NextFocus]_vars


\* ------------------------------------------- the fullscreen specification
\* Workspaces and containers are created, attached, detached and attached
\* again (a move), and fullscreen is toggled on any of them.  A workspace is
\* never put below another workspace; the container that is detached is the
\* last child of its parent.
FsNew == \E p \in Created \cup {NULL} :
             Len(all_cons) < MaxFsCons /\ con_new(p)
FsType == \E c \in Created : AssignType(c, CT_WORKSPACE)
FsAttach == \E c, p \in Created :
                /\ type[c] = CT_WORKSPACE => con_get_workspace(Mem, p) = NULL
                /\ CallAttach(c, p)
FsDetach == \E c \in Created :
                /\ Attached(c)
                /\ c = children(parent[c])[Len(children(parent[c]))]
                /\ Cardinality(Detached) < MaxDetached
                /\ CallDetach(c)
FsToggle == \E c \in Created : CallToggleFullscreen(c)

NextFullscreen == FsNew \/ FsType \/ FsAttach \/ FsDetach \/ FsToggle

SpecFullscreen == Init /\ [][NextFullscreen]_vars

\* ----------------------------------------------- the search specification
\* One tree is built by con_new (the first container is the root), any set
\* of its containers is made fullscreen (in the order of their creation: the
\* assignments commute), and the search is run from any of them.
SearchNew == \E p \in Created \cup {NULL} :
                 /\ Len(all_cons) < MaxSearchCons
                 /\ p = NULL <=> all_cons = <<>>
                 /\ con_new(p)
SearchEnter == \E c \in Created :
                   /\ \A d \in Created : fullscreen_mode[d] # CF_NONE => d < c
                   /\ EnterFullscreen(c)
SearchCall == \E c \in Created : CallGetFullscreenCon(c)

NextSearch == SearchNew \/ SearchEnter \/ SearchCall

SpecSearch == Init /\ [][NextSearch]_vars

\* ---------------------------------------------- the matcher specification
\* Containers are registered, given match rules, and windows are looked up.
MatchNew == Len(all_cons) < MaxMatchCons /\ con_new(NULL)
MatchAdd == \E c \in Created : \E match \in MatchClass :
                Len(swallow_head[c]) < MaxSwallow /\ AddSwallow(c, match)
MatchCall == \E win \in WindowClass : CallForWindow(win)

NextMatch == MatchNew \/ MatchAdd \/ MatchCall

SpecMatch == Init /\ [][NextMatch]_vars

\* ---------------------------------------------- the percent specification
\* A root and its children are created; the last child of a parent is
\* detached and attached to it again; a child without percent is given one;
\* con_fix_percent is called on the root, with or without children, with
\* either action.
PercentInput == {Rat(1, 1), Rat(1, 2)}

PctNew == \E p \in Created \cup {NULL} :
              /\ Len(all_cons) < MaxPctCons
              /\ p = (IF all_cons = <<>> THEN NULL ELSE all_cons[1])
              /\ con_new(p)
PctAttach == \E c \in HasParent : CallAttach(c, parent[c])
PctDetach == \E c \in Created :
                 /\ Attached(c)
                 /\ c = children(parent[c])[Len(children(parent[c]))]
                 /\ Cardinality(Detached) < MaxDetached
                 /\ CallDetach(c)
PctAssign == \E c \in HasParent : \E q \in PercentInput : AssignPercent(c, q)
PctFix == \E c \in Created : \E action \in {WINDOW_ADD, WINDOW_REMOVE} :
              /\ c = all_cons[1]
              /\ last.fix_calls < MaxFixCalls
              /\ CallFixPercent(c, action)

NextPercent == PctNew \/ PctAttach \/ PctDetach \/ PctAssign \/ PctFix

SpecPercent == Init /\ [][NextPercent]_vars

\* --------------------------------------------- the ancestor specification
\* Outputs, workspaces and plain containers are created and attached in any
\* arrangement (also an output below a workspace, or none of a kind at all),
\* each one attached before the next is created; con_get_output and
\* con_get_workspace are called on any of them.
AncNew == \E p \in Created \cup {NULL} :
              Len(all_cons) < MaxAncestorCons /\ con_new(p)
AncType == \E c \in Created : \E t \in {CT_OUTPUT, CT_WORKSPACE} :
               AssignType(c, t)
AncAttach == \E c, p \in Created :
                 c = all_cons[Len(all_cons)] /\ CallAttach(c, p)
AncOutput == \E c \in Created : CallGetOutput(c)
AncWorkspace == \E c \in Created : CallGetWorkspace(c)

NextAncestor == AncNew \/ AncType \/ AncAttach \/ AncOutput \/ AncWorkspace

SpecAncestor == Init /\ [][NextAncestor]_vars

\* ------------------------------------------- the window-state specification
\* Workspaces and containers are created, each one attached before the next
\* is created; containers are given windows; fullscreen is toggled on any
\* container.
WinNew == \E p \in Created \cup {NULL} :
              Len(all_cons) < MaxWindowCons /\ con_new(p)
WinType == \E c \in Created : AssignType(c, CT_WORKSPACE)
WinAttach == \E c, p \in Created :
                 c = all_cons[Len(all_cons)] /\ CallAttach(c, p)
WinWindow == \E c \in Created : AssignWindow(c)
WinToggle == \E c \in Created : CallToggleFullscreen(c)

NextWindow == WinNew \/ WinType \/ WinAttach \/ WinWindow \/ WinToggle

SpecWindow == Init /\ [][NextWindow]_vars

\* ---------------------------------------------- the urgency specification
\* Workspaces and containers are created, each one attached before the next
\* is created; any container is marked urgent; con_focus is called on any
\* attached container.
UrgNew == \E p \in Created \cup {NULL} :
              Len(all_cons) < MaxUrgentCons /\ con_new(p)
UrgType == \E c \in Created : AssignType(c, CT_WORKSPACE)
UrgAttach == \E c, p \in Created :
                 c = all_cons[Len(all_cons)] /\ CallAttach(c, p)
UrgSet == \E c \in Created : SetUrgent(c)
UrgFocus == \E c \in Created : Attached(c) /\ CallFocus(c)

NextUrgent == UrgNew \/ UrgType \/ UrgAttach \/ UrgSet \/ UrgFocus

SpecUrgent == Init /\ [][NextUrgent]_vars

\* ------------------------------------------------- the move specification
\* The operations used as their callers use them: containers are created,
\* attached containers are detached and attached again anywhere, and
\* con_focus is called on attached containers (also inside a subtree that
\* has been detached as a whole).
MoveNew ==
    /\ WellFormed
    /\ \E p \in Created \cup {NULL} : Len(all_cons) < MaxMoveCons /\ con_new(p)
MoveType ==
    /\ WellFormed
    /\ \E c \in Created : AssignType(c, CT_FLOATING_CON)
MoveAttach ==
    /\ WellFormed
    /\ \E c, p \in Created : CallAttach(c, p)
MoveDetach ==
    /\ WellFormed
    /\ \E c \in Created :
           /\ Attached(c)
           /\ Cardinality(Detached) < MaxDetached
           /\ CallDetach(c)
MoveFocus ==
    /\ WellFormed
    /\ \E c \in Created : Attached(c) /\ CallFocus(c)

NextMove == MoveNew \/ MoveType \/ MoveAttach \/ MoveDetach \/ MoveFocus

SpecMove == Init /\ [][NextMove]_vars

\* =================================================================== claims
IsPermutationOf(s, S) == NoDup(s) /\ Range(s) = S
Count(s, x) == Cardinality({i \in 1..Len(s) : s[i] = x})
\* s without its entries equal to x, the others in their order
RECURSIVE Without(_, _)
Without(s, x) ==
    IF s = <<>> THEN <<>>
    ELSE IF Head(s) = x THEN Without(Tail(s), x)
    ELSE <<Head(s)>> \o Without(Tail(s), x)

\* C1: in every reachable state the focus_order of every container is a
\* permutation of the containers in its child lists (children and
\* floating_children): the same set, each exactly once, and so no container
\* that has been detached from it.
C1_FocusOrderIsPermutation ==
    \A p \in Created : IsPermutationOf(focus_order(p), Members(p))

\* C2: in every reachable state parent links and child lists agree: a
\* container with a non-NULL parent is exactly once in that parent's children
\* or floating_children, and every member of a child list has the list's
\* owner as parent.
C2_ParentLinksAgree ==
    /\ \A c \in Created :
           parent[c] # NULL =>
               Count(children(parent[c]), c)
                   + Count(floating_children(parent[c]), c) = 1
    /\ \A p \in Created : \A c \in Members(p) : parent[c] = p

\* C5: con_attach(con, p) of an unattached container of any kind on a tree,
\* immediately followed by con_detach(con), leaves p's children and
\* focus_order with the contents and order they had before the attach.
C5_AttachDetachRestores ==
    [][(/\ last.op = "con_attach"
        /\ last'.op = "con_detach"
        /\ last'.con = last.con)
       => \A p \in Created :
              p = last.arg => /\ children(p)' = last.pre_nodes
                              /\ focus_order(p)' = last.pre_focus]_vars

\* The same for containers that are not CT_FLOATING_CON.
C5_AttachDetachRestores_NotFloating ==
    [][(/\ last.op = "con_attach"
        /\ last'.op = "con_detach"
        /\ last'.con = last.con
        /\ type[last.con] # CT_FLOATING_CON)
       => \A p \in Created :
              p = last.arg => /\ children(p)' = last.pre_nodes
                              /\ focus_order(p)' = last.pre_focus
                              /\ failure' = "none"]_vars

\* C4: con_focus(con) of an attached container leaves con and each of its
\* ancestors that has a parent at the head of its parent's focus_order, the
\* other entries of those lists in the order they had, and every other
\* focus_order as it was.
FocusPath(con) == {a \in Chain(con) : parent[a] # NULL}
C4_FocusPromotesPath ==
    [][(last'.op = "con_focus" /\ WellFormed /\ Attached(last'.con))
       => LET path == FocusPath(last'.con)
          IN  /\ failure' = "none"
              /\ \A a \in path : \A q \in Created :
                     q = parent[a] =>
                         focus_order(q)' = <<a>> \o Without(focus_order(q), a)
              /\ \A q \in Created \ {parent[a] : a \in path} :
                     focus_order(q)' = focus_order(q)]_vars

\* A container two levels below the root has just been focused; it heads a
\* focus list of three that no longer is in the order of the children, and
\* so does its parent one level up.
C4_Witness ==
    /\ last.op = "con_focus"
    /\ failure = "none"
    /\ LET con == last.con
           p == parent[con]
       IN  /\ p # NULL
           /\ parent[p] # NULL
           /\ Len(focus_order(p)) >= 3
           /\ Head(focus_order(p)) = con
           /\ Head(children(p)) # con
           /\ Head(focus_order(parent[p])) = p
           /\ Head(children(parent[p])) # p


\* The containers below w: those linked to w through child lists.
RECURSIVE AttachedChain(_)
AttachedChain(c) ==
    {c} \cup (IF parent[c] # NULL /\ c \in Members(parent[c])
              THEN AttachedChain(parent[c]) ELSE {})
Descendants(w) == {d \in Created \ {w} : w \in AttachedChain(d)}
Fullscreen == {c \in Created : fullscreen_mode[c] # CF_NONE}

\* C3: in every reachable state every CT_WORKSPACE container has at most one
\* descendant whose fullscreen_mode is not CF_NONE.
C3_OneFullscreenPerWorkspace ==
    \A w \in Created :
        type[w] = CT_WORKSPACE =>
            Cardinality(Descendants(w) \cap Fullscreen) <= 1

\* C6 (as stated): con_toggle_fullscreen(con) with con not fullscreen while
\* some other container in the subtree of con's workspace (the workspace
\* itself included) is fullscreen changes no fullscreen_mode and does not
\* fail.
C6_BlockedToggleIsNoOp_Subtree ==
    [][(/\ last'.op = "con_toggle_fullscreen"
        /\ fullscreen_mode[last'.con] = CF_NONE
        /\ con_get_workspace(Mem, last'.con) # NULL
        /\ \E o \in Fullscreen \ {last'.con} :
               con_get_workspace(Mem, last'.con) \in AttachedChain(o))
       => (fullscreen_mode' = fullscreen_mode /\ failure' = "none")]_vars

\* C6 (amended): the same when the other fullscreen container is a strict
\* descendant of con's workspace.
C6_BlockedToggleIsNoOp ==
    [][(/\ last'.op = "con_toggle_fullscreen"
        /\ fullscreen_mode[last'.con] = CF_NONE
        /\ con_get_workspace(Mem, last'.con) # NULL
        /\ \E o \in Fullscreen \ {last'.con} :
               o \in Descendants(con_get_workspace(Mem, last'.con)))
       => (fullscreen_mode' = fullscreen_mode /\ failure' = "none")]_vars

\* con_toggle_fullscreen(con) has returned with con still not fullscreen
\* while a sibling subtree of its workspace holds the fullscreen container.
C6_Witness ==
    /\ last.op = "con_toggle_fullscreen"
    /\ failure = "none"
    /\ fullscreen_mode[last.con] = CF_NONE
    /\ con_get_workspace(Mem, last.con) # NULL
    /\ \E o \in Fullscreen \ {last.con} :
           /\ o \in Descendants(con_get_workspace(Mem, last.con))
           /\ o \notin AttachedChain(last.con)
           /\ last.con \notin AttachedChain(o)

\* The containers at depth k below r, left to right: level 0 is r, the next
\* level is the children of each container of the level, in order.
RECURSIVE ChildrenOfAll(_)
ChildrenOfAll(s) ==
    IF s = <<>> THEN <<>> ELSE children(Head(s)) \o ChildrenOfAll(Tail(s))
RECURSIVE Level(_, _)
Level(r, k) == IF k = 0 THEN <<r>> ELSE ChildrenOfAll(Level(r, k - 1))
RECURSIVE FirstFullscreenIn(_)
FirstFullscreenIn(s) ==
    IF s = <<>> THEN NULL
    ELSE IF fullscreen_mode[Head(s)] # CF_NONE THEN Head(s)
    ELSE FirstFullscreenIn(Tail(s))
RECURSIVE FirstFromLevel(_, _)
FirstFromLevel(r, k) ==
    IF Level(r, k) = <<>> THEN NULL
    ELSE IF FirstFullscreenIn(Level(r, k)) # NULL
    THEN FirstFullscreenIn(Level(r, k))
    ELSE FirstFromLevel(r, k + 1)
LevelOrderFirst(r) == FirstFromLevel(r, 1)
\* The depth of d below its ancestor r.
DepthBelow(r, d) == Cardinality(AttachedChain(d)) - Cardinality(AttachedChain(r))

\* C7: con_get_fullscreen_con(r) returns the first container in level order
\* (each level left to right in the order of the children) among the strict
\* descendants of r that are fullscreen: none at smaller depth is passed
\* over, r itself is never returned, and the result is NULL exactly when no
\* strict descendant is fullscreen.
C7_SearchIsLevelOrder ==
    last.op = "con_get_fullscreen_con" =>
        LET r == last.con
            fs == Descendants(r) \cap Fullscreen
        IN  /\ ret.con = LevelOrderFirst(r)
            /\ ret.con # r
            /\ ret.con = NULL <=> fs = {}
            /\ ret.con # NULL =>
                   /\ ret.con \in fs
                   /\ \A d \in fs : DepthBelow(r, ret.con) <= DepthBelow(r, d)

\* The search has returned a container at depth 2 although a fullscreen
\* container at depth 3 lies in a subtree further to the left, and the
\* search root is fullscreen itself.
C7_Witness ==
    /\ last.op = "con_get_fullscreen_con"
    /\ ret.con # NULL
    /\ fullscreen_mode[last.con] # CF_NONE
    /\ DepthBelow(last.con, ret.con) = 2
    /\ \E d \in Descendants(last.con) \cap Fullscreen :
           /\ DepthBelow(last.con, d) = 3
           /\ \E i, j \in 1..Len(children(last.con)) :
                  /\ i < j
                  /\ children(last.con)[i] \in AttachedChain(d)
                  /\ children(last.con)[j] \in AttachedChain(ret.con)


\* The (registry position, rule position) pairs whose rule matches win.
MatchingPairs(win) ==
    {pr \in (1..Len(all_cons)) \X (1..MaxOf({MaxSwallow, 1})) :
        /\ pr[2] <= Len(swallow_head[all_cons[pr[1]]])
        /\ match_matches_window(swallow_head[all_cons[pr[1]]][pr[2]], win)}
LexLeq(a, b) == a[1] < b[1] \/ (a[1] = b[1] /\ a[2] <= b[2])

\* C8: con_for_window returns the (container, rule) pair that is first in
\* (registry position, position in swallow_head) order among the pairs whose
\* rule matches the window, and NULL exactly when no rule of any registered
\* container matches.
C8_FirstMatchWins ==
    last.op = "con_for_window" =>
        LET pairs == MatchingPairs(last.arg)
        IN  /\ ret.con = NULL <=> pairs = {}
            /\ ret.con # NULL =>
                   \E pr \in pairs :
                       /\ all_cons[pr[1]] = ret.con
                       /\ pr[2] = ret.match
                       /\ \A other \in pairs : LexLeq(pr, other)

\* A window has been looked up that a rule of a later container matches as
\* well, and that the second rule of the container returned matches.
C8_Witness ==
    /\ last.op = "con_for_window"
    /\ ret.con # NULL
    /\ ret.match = 2
    /\ \E pr \in MatchingPairs(last.arg) : all_cons[pr[1]] > ret.con


\* C9: con_fix_percent(p, WINDOW_ADD) directly followed by
\* con_fix_percent(p, WINDOW_REMOVE) leaves every child of p with the percent
\* it had before the two calls.
C9_AddRemoveRestoresPercent ==
    last.add_remove.stage = "done" =>
        \A c \in Range(children(last.add_remove.parent)) :
            percent[c] = last.add_remove.before[c]

\* The two calls have been made on a parent with two children, one with a
\* percent of its own and one without.
C9_Witness ==
    /\ last.add_remove.stage = "done"
    /\ Len(children(last.add_remove.parent)) >= 2
    /\ \E c \in Range(children(last.add_remove.parent)) :
           ~RatLeqZero(percent[c]) /\ percent[c] # RatOne
    /\ \E c \in Range(children(last.add_remove.parent)) : RatLeqZero(percent[c])

\* C10 (as stated): after attach of a child without percent,
\* con_fix_percent(p, WINDOW_ADD), detach of that child and
\* con_fix_percent(p, WINDOW_REMOVE), each counting the children after the
\* structural change, the sum of the positive percents of p's children is
\* what it was before the cycle.
C10_CycleConservesSum ==
    last.cycle_after.stage = "done" =>
        PositiveSum(last.cycle_after.parent) = last.cycle_after.sum

\* C10 (amended): such a cycle on a parent that had n >= 1 children scales
\* the sum of the positive percents by (n+1)/(n+2) * (n+1)/n, and leaves it
\* alone when the parent had no children.
C10_CycleScalesSum ==
    last.cycle_after.stage = "done" =>
        LET n == last.cycle_after.n
            after == PositiveSum(last.cycle_after.parent)
        IN  IF n = 0 THEN after = last.cycle_after.sum
            ELSE after = RatMul(last.cycle_after.sum,
                                Rat((n + 1) * (n + 1), n * (n + 2)))

\* Such a cycle has been completed on a parent whose child has a percent.
C10_Witness ==
    /\ last.cycle_after.stage = "done"
    /\ last.cycle_after.n >= 1
    /\ ~RatLeqZero(last.cycle_after.sum)
    /\ children(last.cycle_after.parent) # <<>>


\* C11: when con_focus(con) returns, the focus pointer is con itself, and no
\* other operation changes the focus pointer.
C11_FocusPointerIsNode ==
    [][/\ (last'.op = "con_focus" /\ failure' = "none") => focused' = last'.con
       /\ last'.op # "con_focus" => focused' = focused]_vars

\* con_focus has returned for a container two levels below the root, whose
\* parent was promoted on the way.
C11_Witness ==
    /\ last.op = "con_focus"
    /\ failure = "none"
    /\ focused = last.con
    /\ parent[last.con] # NULL
    /\ parent[parent[last.con]] # NULL

\* C12: con_detach(con) of a container without parent, or of one that is
\* not in the list it is removed from (floating_children for a
\* CT_FLOATING_CON, children otherwise), fails and changes no child list and
\* no focus_order.
C12_DetachPreconditionFails ==
    [][(/\ last'.op = "con_detach"
        /\ \E c \in Created :
               /\ c = last'.con
               /\ \/ parent[c] = NULL
                  \/ c \notin Range(IF type[c] = CT_FLOATING_CON
                                    THEN floating_children(parent[c])
                                    ELSE children(parent[c])))
       => /\ failure' # "none"
          /\ \A p \in Created :
                 /\ children(p)' = children(p)
                 /\ floating_children(p)' = floating_children(p)
                 /\ focus_order(p)' = focus_order(p)]_vars

\* C16: con_focus(con) of a container in the tree (con and each of its
\* ancestors that has a parent is in its parent's children) leaves parent,
\* children and floating_children of every container as they were, and
\* every focus_order that does not belong to a container on the path from
\* con's parent to the root.
InTree(c) == \A a \in Chain(c) : parent[a] # NULL => Attached(a)
C16_FocusKeepsStructure ==
    [][(last'.op = "con_focus"
        /\ \E c \in Created : c = last'.con /\ Attached(c) /\ InTree(c))
       => /\ parent' = parent
          /\ all_cons' = all_cons
          /\ type' = type
          /\ \A p \in Created :
                 /\ children(p)' = children(p)
                 /\ floating_children(p)' = floating_children(p)
                 /\ p \notin {parent[a] : a \in FocusPath(last'.con)}
                        => focus_order(p)' = focus_order(p)]_vars

\* con_focus has returned and the focus_order of con's parent is no longer
\* in the order of its children.
C16_Witness ==
    /\ last.op = "con_focus"
    /\ failure = "none"
    /\ Attached(last.con)
    /\ Len(children(parent[last.con])) >= 2
    /\ focus_order(parent[last.con]) # children(parent[last.con])

\* C17: con_attach(con, p), called directly or by con_new with a parent, sets
\* con->parent to p and appends con to p's children and to p's focus_order;
\* the focus pointer stays, and so does the head of a focus_order that was
\* not empty.
C17_AttachAppends ==
    [][(\/ last'.op = "con_attach"
        \/ (last'.op = "con_new" /\ last'.arg # NULL))
       => \A c, p \in Con :
              (c = last'.con /\ p = last'.arg)
                  => /\ failure' = "none"
                     /\ parent'[c] = p
                     /\ children(p)' = Append(children(p), c)
                     /\ focus_order(p)' = Append(focus_order(p), c)
                     /\ focused' = focused
                     /\ focus_order(p) # <<>>
                            => Head(focus_order(p)') = Head(focus_order(p))]_vars

\* A container has been attached to a parent whose focus_order is headed by
\* the focused container, a child that was there before.
C17_Witness ==
    /\ last.op = "con_attach"
    /\ failure = "none"
    /\ Len(focus_order(last.arg)) >= 2
    /\ focused = Head(focus_order(last.arg))
    /\ focused # last.con

C20_DetachFrame ==
    [][(last'.op = "con_detach"
        /\ \E c \in Created : c = last'.con /\ Attached(c))
       => /\ parent' = parent
          /\ all_cons' = all_cons
          /\ focused' = focused
          /\ fullscreen_mode' = fullscreen_mode
          /\ type' = type
          /\ \A q \in Created :
                 q # parent[last'.con]
                     => /\ children(q)' = children(q)
                        /\ floating_children(q)' = floating_children(q)
                        /\ focus_order(q)' = focus_order(q)]_vars

\* The focused container, which has a child of its own, has been detached:
\* the focus pointer and its parent field still name what they named.
C20_Witness ==
    /\ last.op = "con_detach"
    /\ failure = "none"
    /\ last.con \in Range(last.pre_nodes)
    /\ ~Attached(last.con)
    /\ focused = last.con
    /\ parent[last.con] # NULL
    /\ children(last.con) # <<>>


\* C13: con_get_output and con_get_workspace return the nearest container of
\* the kind on the parent chain that starts at con itself; when the chain
\* has none the call ends in a failed assert and returns nothing.
C13_NearestAncestorOfKind ==
    last.op \in {"con_get_output", "con_get_workspace"} =>
        LET t == IF last.op = "con_get_output" THEN CT_OUTPUT ELSE CT_WORKSPACE
            hits == {a \in Chain(last.con) : type[a] = t}
        IN  IF hits = {} THEN failure = "SIGABRT"
            ELSE /\ failure = "none"
                 /\ ret.con \in hits
                 /\ \A a \in hits : a \in Chain(ret.con)

\* A locator has returned a strict ancestor of con that is not the only
\* container of the kind above con.
C13_Witness ==
    /\ last.op \in {"con_get_output", "con_get_workspace"}
    /\ failure = "none"
    /\ ret.con # last.con
    /\ \E a \in Chain(ret.con) \ {ret.con} : type[a] = type[ret.con]


\* C14: every con_toggle_fullscreen(con) that returns, a blocked one
\* included, calls xcb_change_property if and only if con has a window, and
\* then pushes _NET_WM_STATE_FULLSCREEN exactly when con is fullscreen after
\* the call.
Pushes == SelectSeq(xcalls, LAMBDA x : x.fn = "xcb_change_property")
C14_PushIffWindow ==
    (last.op = "con_toggle_fullscreen" /\ failure = "none") =>
        /\ Pushes # <<>> <=> window[last.con] # NULL
        /\ \A i \in 1..Len(Pushes) :
               /\ Pushes[i].con = last.con
               /\ Pushes[i].val = IF fullscreen_mode[last.con] # CF_NONE
                                  THEN "_NET_WM_STATE_FULLSCREEN" ELSE ""


\* C15: con_focus(con) of an attached container that was not urgent does
\* not fail, changes no urgent flag and notifies no workspace, whatever the
\* flags of con's ancestors; when con was urgent and the call returns, con
\* is no longer urgent and the workspace has been notified.
UrgentNotes ==
    SelectSeq(xcalls, LAMBDA x : x.fn = "workspace_update_urgent_flag")
C15_UrgentOnlyOfNode ==
    [][(last'.op = "con_focus" /\ \E c \in Created : c = last'.con /\ Attached(c))
       => \A c \in Created :
              c = last'.con
                  => /\ ~urgent[c] => /\ failure' = "none"
                                      /\ urgent' = urgent
                                      /\ UrgentNotes' = <<>>
                     /\ (urgent[c] /\ failure' = "none")
                            => /\ ~urgent'[c]
                               /\ UrgentNotes' # <<>>]_vars


\* C19: con_fix_percent(p, action) multiplies the percent of every child of
\* p with percent > 0 by n/(n+1) for WINDOW_ADD and by (n+1)/n for
\* WINDOW_REMOVE, n being the number of children of p; every other percent,
\* every children list and every focus_order stay as they were.
C19_FixPercentFrame ==
    [][last'.op = "con_fix_percent"
       => \A p \in Created :
              p = last'.con
                  => LET n == Len(children(p))
                         fix == IF last'.arg = WINDOW_ADD
                                THEN Rat(n, n + 1) ELSE Rat(n + 1, n)
                     IN  /\ failure' = "none"
                         /\ \A c \in Con :
                                percent'[c] =
                                    IF /\ c \in Range(children(p))
                                       /\ ~RatLeqZero(percent[c])
                                    THEN RatMul(percent[c], fix)
                                    ELSE percent[c]
                         /\ \A q \in Created :
                                /\ children(q)' = children(q)
                                /\ focus_order(q)' = focus_order(q)
                         /\ parent' = parent
                         /\ focused' = focused
                         /\ fullscreen_mode' = fullscreen_mode]_vars

\* con_fix_percent has been called on a parent with a child whose percent
\* it scaled and a child without percent.
C19_Witness ==
    /\ last.op = "con_fix_percent"
    /\ failure = "none"
    /\ Len(children(last.con)) >= 2
    /\ \E c \in Range(children(last.con)) :
           ~RatLeqZero(percent[c]) /\ percent[c] \notin PercentInput
    /\ \E c \in Range(children(last.con)) : percent[c] = RatZero

====
